---------------------------- MODULE Spec2Model ----------------------------
(***************************************************************************)
(* A model of reconstruct.py: the penumbral-image reconstruction pipeline  *)
(* (the body of `if __name__ == '__main__'`), and the pure functions       *)
(* simple_penumbra and simple_fit it calls.                                *)
(*                                                                         *)
(*   Spec         the batch: catalog rows, cuts, fits, validation, moments *)
(*   SpecFit      calls of simple_fit and simple_penumbra                  *)
(*   SpecLattice  the lattice loops of simple_fit and of the re-binning    *)
(*   SpecKernel   the construction of penumbral_kernel                     *)
(*   SpecMask     the construction of the data mask                        *)
(*   SpecRecords  the setup of each record: its pitch and its view radius  *)
(*                                                                         *)
(* In Spec the numerical results of a cut (the fitted center and charging, *)
(* the size of the data mask, the chi-squared of the deconvolver) are      *)
(* drawn from small sets; the other specifications compute them.           *)
(*                                                                         *)
(* Lengths are integers in one common unit.  Optional Python values        *)
(* (None, an unbound name) are sequences of length 0 or 1: <<>> is None,   *)
(* <<v>> is the value v.                                                   *)
(***************************************************************************)
EXTENDS Integers, Sequences, FiniteSets

VARIABLES
    \* ---- the batch pipeline (__main__) ----
    pc,            \* position in the main loop
    i,             \* index of the catalog row being processed (for i, scan in ...)
    VIEW_RADIUS,   \* the module-level global, reassigned at line 251
    Q,             \* charging: <<>> is None
    nCuts,         \* len(cuts): 1 ('plasma') or 4
    color,         \* index of the cut being processed (enumerate(cuts))
    x0,            \* the fitted center of the current cut (y0 is handled alike)
    XS,            \* the source grid name: <<>> unbound, <<g>> the grid centered at g
    sum_data_bins, \* np.sum(data_bins) of the current cut: <<>> or <<n>>
    chi2,          \* the chi-squared the deconvolver returned: <<>> or <<c>>
    image_layers,  \* per emitted map, the cut that produced it
    x_layers,      \* per emitted map, its source grid
    printed,       \* the last message printed
    shape_args,    \* the arguments of the last shape_parameters call: <<>> or <<rec>>
    \* ---- history of the current row (not program state) ----
    missing,       \* the rows for which no file matched
    steps,         \* the reconstruction steps performed for the current row
    fits,          \* the fits run for the current row, in order
    outcome        \* per finished cut of the current row: empty, discarded, emitted

pipeVars == <<pc, i, VIEW_RADIUS, Q, nCuts, color, x0, XS, sum_data_bins, chi2,
              image_layers, x_layers, printed, shape_args,
              missing, steps, fits, outcome>>

\* ---- calls of the pure functions, checked on their own ----
VARIABLES
    fit_call,      \* the arguments of a simple_fit call, and the n_bins it reads
    fit_ret,       \* what simple_fit did: <<>> before the call
    penumbra_ret,  \* what simple_penumbra did: <<>> before the call
    lattice,       \* s0 and r_img of a cut (lines 249-250)
    fit_offsets,   \* the lattice offsets simple_fit superposes: <<>> or <<set>>
    rebin_offsets, \* the lattice offsets the re-binning folds: <<>> or <<set>>
    kernel_grid,   \* kernel_size and the pixel pitch dxK = dyK of a kernel grid
    kernel_loop,   \* iterations done of the loop of lines 359-361
    kernel_evals,  \* per evaluation of that loop, the displacement of the pixel centers
    kernel_unit,   \* whether penumbral_kernel was divided by its sum (line 362)
    mask_in,       \* N, penumbral_kernel and the grid sizes of a cut
    mask_line,     \* the last line run of lines 373-374: 0 before them
    data_bins,     \* the data mask: the set of pixels that are True
    data_bins_373, \* history: the data mask as line 373 left it
    scan,          \* the catalog row of the record: its aperture pitch and magnification
    sA,            \* the aperture pitch of the record (lines 221-223): <<>> or <<v>>
    image_pitch,   \* s0 of the record (line 249): <<>> or <<v>>
    setup_line,    \* the next line to run of the setup of a record: 0 when idle
    results        \* history: per record set up, its row, its tracks and its pitches

fitVars == <<fit_call, fit_ret, penumbra_ret>>
latticeVars == <<lattice, fit_offsets, rebin_offsets>>
kernelVars == <<kernel_grid, kernel_loop, kernel_evals, kernel_unit>>
maskVars == <<mask_in, mask_line, data_bins, data_bins_373>>
recordVars == <<scan, sA, image_pitch, setup_line, results>>
fnVars == <<fitVars, latticeVars, kernelVars, maskVars, recordVars>>

vars == <<pipeVars, fnVars>>

\* ---- bounds of the model ----
NumRecords == 2     \* catalog rows
MaxCenter  == 1     \* fitted centers are drawn from 0..MaxCenter
MaxQ       == 1     \* fitted chargings are drawn from 0..MaxQ
MaxPix     == 2     \* pixels included in the data mask: 0..MaxPix
MaxChi2    == 4     \* chi-squared returned by the deconvolver: 0..MaxChi2
MaxExtent  == 2     \* largest track coordinate of a file: 1..MaxExtent

\* ---- program constants ----
VIEW_RADIUS_0 == 5  \* VIEW_RADIUS = 5.0

None == <<>>
Some(v) == <<v>>

(***************************************************************************)
(* chi2/np.sum(data_bins) >= 2.0, line 385.  np.sum gives a numpy integer, *)
(* so a division by zero does not raise (np.seterr('ignore')): c/0 is +inf *)
(* for c > 0, -inf for c < 0 and NaN for c = 0, and NaN >= 2.0 is False.   *)
(***************************************************************************)
Unreasonable(c, n) ==
    IF n > 0 THEN c >= 2 * n
    ELSE IF n < 0 THEN c <= 2 * n
    ELSE c > 0

\* chi2/np.sum(data_bins) < 2.0 in the same arithmetic (NaN < 2.0 is False)
PerPixelBelowTwo(c, n) ==
    IF n > 0 THEN c < 2 * n
    ELSE IF n < 0 THEN c > 2 * n
    ELSE c < 0

InitPipe ==
    /\ pc = "loop"
    /\ i = 0
    /\ Q = None
    /\ nCuts = 0
    /\ color = 0
    /\ x0 = None
    /\ XS = None
    /\ sum_data_bins = None
    /\ chi2 = None
    /\ image_layers = <<>>
    /\ x_layers = <<>>
    /\ printed = ""
    /\ shape_args = None
    /\ missing = {}
    /\ steps = {}
    /\ fits = <<>>
    /\ outcome = <<>>

\* no function call is being checked
FitIdle == fit_call = None /\ fit_ret = None /\ penumbra_ret = None
LatticeIdle == lattice = None /\ fit_offsets = None /\ rebin_offsets = None
KernelIdle ==
    kernel_grid = None /\ kernel_loop = 0 /\ kernel_evals = <<>> /\ kernel_unit = FALSE
MaskIdle == mask_in = None /\ mask_line = 0 /\ data_bins = {} /\ data_bins_373 = {}
RecordIdle ==
    scan = None /\ sA = None /\ image_pitch = None /\ setup_line = 0 /\ results = {}
FnIdle == FitIdle /\ LatticeIdle /\ KernelIdle /\ MaskIdle /\ RecordIdle

Init ==
    /\ InitPipe
    /\ VIEW_RADIUS = VIEW_RADIUS_0
    /\ FnIdle

\* lines 216-236: the next catalog row; Q = None
\* the loop head without Q = None (a charging kept from the previous row)
NextRowMut ==
    /\ pc = "loop"
    /\ i < NumRecords
    /\ i' = i + 1
    /\ pc' = "lookup"
    /\ steps' = {}
    /\ fits' = <<>>
    /\ outcome' = <<>>
    /\ shape_args' = None
    /\ UNCHANGED fnVars
    /\ UNCHANGED <<VIEW_RADIUS, Q, nCuts, color, x0, XS, sum_data_bins, chi2,
                   image_layers, x_layers, printed, missing>>

NextRow ==
    /\ pc = "loop"
    /\ i < NumRecords
    /\ i' = i + 1
    /\ Q' = None
    /\ pc' = "lookup"
    /\ steps' = {}
    /\ fits' = <<>>
    /\ outcome' = <<>>
    /\ shape_args' = None
    /\ UNCHANGED fnVars
    /\ UNCHANGED <<VIEW_RADIUS, nCuts, color, x0, XS, sum_data_bins, chi2,
                   image_layers, x_layers, printed, missing>>

\* line 216: the catalog is exhausted
Finish ==
    /\ pc = "loop"
    /\ i = NumRecords
    /\ pc' = "done"
    /\ UNCHANGED fnVars
    /\ UNCHANGED <<i, VIEW_RADIUS, Q, nCuts, color, x0, XS, sum_data_bins, chi2,
                   image_layers, x_layers, printed, shape_args,
                   missing, steps, fits, outcome>>

\* lines 237-242: a file of the scan folder matches the row
LookupFound ==
    /\ pc = "lookup"
    /\ printed' = "Beginning reconstruction"
    /\ pc' = "setup"
    /\ UNCHANGED fnVars
    /\ UNCHANGED <<i, VIEW_RADIUS, Q, nCuts, color, x0, XS, sum_data_bins, chi2,
                   image_layers, x_layers, shape_args,
                   missing, steps, fits, outcome>>

\* lines 237-245: no file matches: print and continue
\* the lookup without the continue of line 245
LookupMissingMut ==
    /\ pc = "lookup"
    /\ printed' = "Could not find text file"
    /\ missing' = missing \cup {i}
    /\ pc' = "setup"
    /\ UNCHANGED fnVars
    /\ UNCHANGED <<i, VIEW_RADIUS, Q, nCuts, color, x0, XS, sum_data_bins, chi2,
                   image_layers, x_layers, shape_args, steps, fits, outcome>>

LookupMissing ==
    /\ pc = "lookup"
    /\ printed' = "Could not find text file"
    /\ missing' = missing \cup {i}
    /\ pc' = "loop"
    /\ UNCHANGED fnVars
    /\ UNCHANGED <<i, VIEW_RADIUS, Q, nCuts, color, x0, XS, sum_data_bins, chi2,
                   image_layers, x_layers, shape_args, steps, fits, outcome>>

\* lines 246-281: load the tracks, set VIEW_RADIUS and the grids, choose the cuts
Setup ==
    /\ pc = "setup"
    /\ \E extent \in 1..MaxExtent : VIEW_RADIUS' = extent
    /\ \E n \in {1, 4} : nCuts' = n
    /\ image_layers' = <<>>
    /\ x_layers' = <<>>
    /\ color' = 0
    /\ steps' = steps \cup {"load"}
    /\ pc' = "cuts"
    /\ UNCHANGED fnVars
    /\ UNCHANGED <<i, Q, x0, XS, sum_data_bins, chi2, printed, shape_args,
                   missing, fits, outcome>>

\* lines 283-290: the cut has no track
CutEmpty ==
    /\ pc = "cuts"
    /\ color < nCuts
    /\ printed' = "No tracks found in this cut."
    /\ outcome' = Append(outcome, "empty")
    /\ color' = color + 1
    /\ UNCHANGED fnVars
    /\ UNCHANGED <<pc, i, VIEW_RADIUS, Q, nCuts, x0, XS, sum_data_bins, chi2,
                   image_layers, x_layers, shape_args, missing, steps, fits>>

\* lines 283-305: the cut has tracks: histogram them, seed the center at (0, 0)
Histogram ==
    /\ pc = "cuts"
    /\ color < nCuts
    /\ steps' = steps \cup {"histogram"}
    /\ x0' = Some(0)
    /\ sum_data_bins' = None
    /\ chi2' = None
    /\ pc' = "fit"
    /\ UNCHANGED fnVars
    /\ UNCHANGED <<i, VIEW_RADIUS, Q, nCuts, color, XS,
                   image_layers, x_layers, printed, shape_args,
                   missing, fits, outcome>>

\* lines 307-315, 324-325: Q is None: fit (x0, y0, delta, Q)
FitStage1 ==
    /\ pc = "fit"
    /\ Q = None
    /\ \E c \in 0..MaxCenter, q \in 0..MaxQ :
          /\ x0' = Some(c)
          /\ Q' = Some(q)
          /\ fits' = Append(fits, [stage |-> 4, color |-> color, given |-> None, Q |-> q])
    /\ steps' = steps \cup {"fit"}
    /\ printed' = "n = ..."
    /\ pc' = "grids"
    /\ UNCHANGED fnVars
    /\ UNCHANGED <<i, VIEW_RADIUS, nCuts, color, XS, sum_data_bins, chi2,
                   image_layers, x_layers, shape_args, missing, outcome>>

\* lines 316-325: Q is known: fit (x0, y0, delta) with Q as a fixed argument
FitStage2 ==
    /\ pc = "fit"
    /\ Q # None
    /\ \E c \in 0..MaxCenter :
          /\ x0' = Some(c)
          /\ fits' = Append(fits, [stage |-> 3, color |-> color, given |-> Q, Q |-> Q[1]])
    /\ steps' = steps \cup {"fit"}
    /\ printed' = "n = ..."
    /\ pc' = "grids"
    /\ UNCHANGED fnVars
    /\ UNCHANGED <<i, VIEW_RADIUS, Q, nCuts, color, XS, sum_data_bins, chi2,
                   image_layers, x_layers, shape_args, missing, outcome>>

\* lines 327-374: the image, kernel and source grids around the fitted center,
\* the combined image, the kernel and the data mask
Grids ==
    /\ pc = "grids"
    /\ XS' = x0
    /\ \E n \in 0..MaxPix : sum_data_bins' = Some(n)
    /\ steps' = steps \cup {"rebin", "kernel", "mask"}
    /\ pc' = "deconvolve"
    /\ UNCHANGED fnVars
    /\ UNCHANGED <<i, VIEW_RADIUS, Q, nCuts, color, x0, chi2,
                   image_layers, x_layers, printed, shape_args,
                   missing, fits, outcome>>

\* lines 376-384: the deconvolver returns B and its chi-squared
Deconvolve ==
    /\ pc = "deconvolve"
    /\ \E c \in 0..MaxChi2 : chi2' = Some(c)
    /\ steps' = steps \cup {"deconvolve"}
    /\ pc' = "validate"
    /\ UNCHANGED fnVars
    /\ UNCHANGED <<i, VIEW_RADIUS, Q, nCuts, color, x0, XS, sum_data_bins,
                   image_layers, x_layers, printed, shape_args,
                   missing, fits, outcome>>

\* lines 385-387: throw the result away
Discard ==
    /\ pc = "validate"
    /\ Unreasonable(chi2[1], sum_data_bins[1])
    /\ printed' = "Could not find adequate fit."
    /\ outcome' = Append(outcome, "discarded")
    /\ color' = color + 1
    /\ pc' = "cuts"
    /\ UNCHANGED fnVars
    /\ UNCHANGED <<i, VIEW_RADIUS, Q, nCuts, x0, XS, sum_data_bins, chi2,
                   image_layers, x_layers, shape_args, missing, steps, fits>>

\* lines 385, 388-406: keep the result: append B/B.max() and its grid
Emit ==
    /\ pc = "validate"
    /\ ~Unreasonable(chi2[1], sum_data_bins[1])
    /\ image_layers' = Append(image_layers, color)
    /\ x_layers' = Append(x_layers, XS[1])
    /\ outcome' = Append(outcome, "emitted")
    /\ color' = color + 1
    /\ pc' = "cuts"
    /\ UNCHANGED fnVars
    /\ UNCHANGED <<i, VIEW_RADIUS, Q, nCuts, x0, XS, sum_data_bins, chi2,
                   printed, shape_args, missing, steps, fits>>

\* lines 283, 408-424: the cuts are exhausted; the optional x-ray image
CutsDone ==
    /\ pc = "cuts"
    /\ color = nCuts
    /\ pc' = "composite"
    /\ UNCHANGED fnVars
    /\ UNCHANGED <<i, VIEW_RADIUS, Q, nCuts, color, x0, XS, sum_data_bins, chi2,
                   image_layers, x_layers, printed, shape_args,
                   missing, steps, fits, outcome>>

\* line 426: at most one layer: no composite plot
CompositeSkipped ==
    /\ pc = "composite"
    /\ ~(Len(image_layers) > 1)
    /\ pc' = "moments"
    /\ UNCHANGED fnVars
    /\ UNCHANGED <<i, VIEW_RADIUS, Q, nCuts, color, x0, XS, sum_data_bins, chi2,
                   image_layers, x_layers, printed, shape_args,
                   missing, steps, fits, outcome>>

\* lines 426-449: layers [0], [1] and [3] are overlaid
CompositeDrawn ==
    /\ pc = "composite"
    /\ Len(image_layers) > 1
    /\ Len(image_layers) >= 4
    /\ steps' = steps \cup {"composite"}
    /\ pc' = "moments"
    /\ UNCHANGED fnVars
    /\ UNCHANGED <<i, VIEW_RADIUS, Q, nCuts, color, x0, XS, sum_data_bins, chi2,
                   image_layers, x_layers, printed, shape_args,
                   missing, fits, outcome>>

\* lines 426-433: x_layers[3] with fewer than four layers: IndexError, uncaught
CompositeIndexError ==
    /\ pc = "composite"
    /\ Len(image_layers) > 1
    /\ Len(image_layers) < 4
    /\ pc' = "aborted"
    /\ UNCHANGED fnVars
    /\ UNCHANGED <<i, VIEW_RADIUS, Q, nCuts, color, x0, XS, sum_data_bins, chi2,
                   image_layers, x_layers, printed, shape_args,
                   missing, steps, fits, outcome>>

\* lines 451-455: shape_parameters(XS, YS, image_layers[0])
MomentsComputed ==
    /\ pc = "moments"
    /\ Len(image_layers) > 0
    /\ shape_args' = Some([grid |-> XS[1], layer |-> image_layers[1],
                           layerGrid |-> x_layers[1]])
    /\ steps' = steps \cup {"moments"}
    /\ printed' = "P2 = ..."
    /\ pc' = "loop"
    /\ UNCHANGED fnVars
    /\ UNCHANGED <<i, VIEW_RADIUS, Q, nCuts, color, x0, XS, sum_data_bins, chi2,
                   image_layers, x_layers, missing, fits, outcome>>

\* line 451: no layer: nothing to analyze
MomentsSkipped ==
    /\ pc = "moments"
    /\ Len(image_layers) = 0
    /\ pc' = "loop"
    /\ UNCHANGED fnVars
    /\ UNCHANGED <<i, VIEW_RADIUS, Q, nCuts, color, x0, XS, sum_data_bins, chi2,
                   image_layers, x_layers, printed, shape_args,
                   missing, steps, fits, outcome>>

Next ==
    \/ NextRow
    \/ Finish
    \/ LookupFound
    \/ LookupMissing
    \/ Setup
    \/ CutEmpty
    \/ Histogram
    \/ FitStage1
    \/ FitStage2
    \/ Grids
    \/ Deconvolve
    \/ Discard
    \/ Emit
    \/ CutsDone
    \/ CompositeSkipped
    \/ CompositeDrawn
    \/ CompositeIndexError
    \/ MomentsComputed
    \/ MomentsSkipped

Spec == Init /\ [][Next]_vars

(***************************************************************************)
(*            simple_penumbra and simple_fit, called on their own          *)
(*                                                                         *)
(* Comparisons of lengths are exact: a + b*sqrt(3) is compared with 0 by   *)
(* the signs and squares of the integers a and b.                          *)
(***************************************************************************)
Abs(v) == IF v < 0 THEN -v ELSE v

\* a + b*sqrt(3) >= 0
NonNegative(a, b) ==
    IF a >= 0 /\ b >= 0 THEN TRUE
    ELSE IF a <= 0 /\ b <= 0 THEN FALSE
    ELSE IF a >= 0 THEN a * a >= 3 * b * b
    ELSE 3 * b * b >= a * a

\* range(-6, 6) for both loop indices, lines 182-185 and 332-335
LatticeIndices == {<<ii, j>> : ii \in -6..5, j \in -6..5}

\* 4*np.hypot(dx, dy)**2/s0**2 for dy = ii*sqrt(3)/2*s0 and dx = (2*j + ii%2)*s0/2
OffsetNorm(ii, j) == (2 * j + (ii % 2)) * (2 * j + (ii % 2)) + 3 * ii * ii

\* line 186: np.hypot(dx, dy) < VIEW_RADIUS - r_img
InFitView(ii, j, s0, r_img) ==
    /\ VIEW_RADIUS - r_img > 0
    /\ s0 * s0 * OffsetNorm(ii, j)
          < 4 * (VIEW_RADIUS - r_img) * (VIEW_RADIUS - r_img)

\* line 336: np.hypot(dx, dy) + r_img <= VIEW_RADIUS
InRebinView(ii, j, s0, r_img) ==
    /\ VIEW_RADIUS - r_img >= 0
    /\ s0 * s0 * OffsetNorm(ii, j)
          <= 4 * (VIEW_RADIUS - r_img) * (VIEW_RADIUS - r_img)

\* an offset (dx, dy) is named by <<2*dx/s0, 2*dy/(sqrt(3)*s0)>>
OffsetOf(ij) == <<2 * ij[2] + (ij[1] % 2), ij[1]>>

\* lines 182-186: the offsets simple_fit superposes
FitLattice(s0, r_img) ==
    {OffsetOf(ij) : ij \in {q \in LatticeIndices : InFitView(q[1], q[2], s0, r_img)}}

\* lines 332-336: the offsets whose hits are folded into N
RebinLattice(s0, r_img) ==
    {OffsetOf(ij) : ij \in {q \in LatticeIndices : InRebinView(q[1], q[2], s0, r_img)}}

(***************************************************************************)
(* simple_penumbra(r, delta, Q, r0, r_max, ...), lines 142-160, by the     *)
(* branch it takes; nb is the module-level n_bins (>= 1), so that          *)
(* 4*delta >= r_max/n_bins is 4*delta*nb >= r_max.                         *)
(***************************************************************************)
\* the same with 4*delta > r_max as the first test
simple_penumbra_mut(delta, r_max, nb) ==
    IF 4 * delta > r_max THEN "ValueError"
    ELSE IF 4 * delta * nb >= r_max THEN "convolved"
    ELSE IF delta >= 0 THEN "sampled"
    ELSE "ValueError"

simple_penumbra(delta, r_max, nb) ==
    IF 4 * delta >= r_max THEN "ValueError"
    ELSE IF 4 * delta * nb >= r_max THEN "convolved"
    ELSE IF delta >= 0 THEN "sampled"
    ELSE "ValueError"

\* lines 165-175: the call shapes simple_fit accepts
Supported(call) ==
    <<Len(call.p), call.nargs>> \in {<<3, 12>>, <<4, 10>>, <<4, 11>>, <<7, 11>>}

\* lines 165-173: the parameters, unpacked by call shape
Unpack(call) ==
    LET p == call.p
        shape == <<Len(call.p), call.nargs>>
    IN  [x0    |-> p[1],
         y0    |-> p[2],
         delta |-> p[3],
         Q     |-> IF shape = <<3, 12>> THEN call.Q
                   ELSE IF shape = <<4, 10>> THEN 0
                   ELSE p[4],
         r0    |-> IF shape = <<4, 10>> THEN p[4] ELSE call.r0,
         a     |-> IF shape = <<7, 11>> THEN p[5] ELSE 1,
         b     |-> IF shape = <<7, 11>> THEN p[6] ELSE 0,
         c     |-> IF shape = <<7, 11>> THEN p[7] ELSE 1]

\* line 176: reject impossible parameters
\* line 176 without the test of y0
InfeasibleMut(P) == P.Q < 0 \/ Abs(P.x0) > VIEW_RADIUS

Infeasible(P) == P.Q < 0 \/ Abs(P.x0) > VIEW_RADIUS \/ Abs(P.y0) > VIEW_RADIUS

\* lines 178-179, 187, 192: r_rel <= r_img at pixel (X, Y) for offset off
Touched(P, call, X, Y, off) ==
    LET x_eff == P.a * (X - P.x0) + P.b * (Y - P.y0)
        y_eff == P.b * (X - P.x0) + P.c * (Y - P.y0)
        u == 2 * x_eff - off[1] * call.s0
    IN  /\ call.r_img >= 0
        /\ NonNegative(4 * call.r_img * call.r_img - u * u - 4 * y_eff * y_eff
                           - 3 * off[2] * off[2] * call.s0 * call.s0,
                       4 * y_eff * off[2] * call.s0)

\* lines 181-192: the pixels at which the data are compared
Include(P, call) ==
    {xy \in call.XC \X call.XC :
        \E off \in FitLattice(call.s0, call.r_img) : Touched(P, call, xy[1], xy[2], off)}

(***************************************************************************)
(* lines 199-210: the value returned once the model image is built.  The   *)
(* range is given (minimum >= 1 here) or regressed from the data; the      *)
(* residual is finite, and the penalty holds -log(maximum/minimum - 1),    *)
(* which is +inf when maximum = minimum.                                   *)
(***************************************************************************)
Scored(call) ==
    LET minimum == IF call.minimum = None THEN call.regress[2] ELSE call.minimum[1]
        maximum == IF call.minimum = None THEN call.regress[2] + call.regress[1]
                   ELSE call.maximum[1]
    IN  IF minimum > maximum THEN "inf"
        ELSE IF maximum = minimum THEN "inf"
        ELSE "finite"

\* lines 163-210: what a call of simple_fit does: "ValueError" (raised), "inf" or
\* "finite" (returned)
simple_fit(call) ==
    IF ~Supported(call) THEN "ValueError"
    ELSE LET P == Unpack(call) IN
        IF Infeasible(P) THEN "inf"
        ELSE IF FitLattice(call.s0, call.r_img) # {}
                /\ simple_penumbra(P.delta, call.r_img, call.n_bins) = "ValueError"
            THEN "inf"
        ELSE IF FitLattice(call.s0, call.r_img) # {} /\ call.teoNaN THEN "inf"
        ELSE IF Include(P, call) = {} THEN "inf"
        ELSE Scored(call)

\* ---- the calls that are tried ----
MaxDelta == 2       \* blurs are drawn from -1..MaxDelta
MaxCharge == 1      \* chargings are drawn from -1..MaxCharge
FitView == 12       \* the view radius of the simple_fit calls
Centers == {<<0, 0>>, <<10, 10>>, <<13, 0>>, <<-13, 0>>, <<0, 13>>, <<0, -13>>}
ImageRadii == {4, 8}
Pitches == {4, 16}
BinCounts == {2, 3}
Distortions == {<<1, 0, 1>>, <<1, 1, 1>>}
\* (minimum, maximum) as given, or None and the regression's (scale, minimum)
Ranges ==
    {[minimum |-> Some(m[1]), maximum |-> Some(m[2]), regress |-> None] :
        m \in {<<1, 3>>, <<3, 1>>, <<2, 2>>}}
    \cup {[minimum |-> None, maximum |-> None, regress |-> g] :
        g \in {<<2, 1>>, <<-1, 2>>}}

\* xC, line 268: the centers of the n bins of linspace(-view, view, n + 1)
BinCenters(view, n) == {((2 * k + 1 - n) * view) \div n : k \in 0..(n - 1)}

ParameterVectors(x, y, d) ==
    {[p |-> <<x, y, d>>, nargs |-> 12, Q |-> q] : q \in -1..MaxCharge}
    \cup {[p |-> <<x, y, d, 2>>, nargs |-> 10, Q |-> 0]}
    \cup {[p |-> <<x, y, d, q>>, nargs |-> 11, Q |-> 0] : q \in -1..MaxCharge}
    \cup {[p |-> <<x, y, d, q, t[1], t[2], t[3]>>, nargs |-> 11, Q |-> 0] :
             q \in -1..MaxCharge, t \in Distortions}
    \cup {[p |-> <<x, y, d>>, nargs |-> 11, Q |-> 0]}

InitFit ==
    /\ InitPipe
    /\ VIEW_RADIUS = FitView
    /\ \E c \in Centers, d \in -1..MaxDelta,
          r \in ImageRadii, s \in Pitches, n \in BinCounts,
          g \in Ranges, nan \in BOOLEAN :
          \E v \in ParameterVectors(c[1], c[2], d) :
             fit_call = Some([p |-> v.p, nargs |-> v.nargs, Q |-> v.Q, r0 |-> 2,
                              s0 |-> s, r_img |-> r, n_bins |-> n,
                              minimum |-> g.minimum, maximum |-> g.maximum,
                              regress |-> g.regress, teoNaN |-> nan,
                              XC |-> BinCenters(FitView, n)])
    /\ fit_ret = None
    /\ penumbra_ret = None
    /\ LatticeIdle
    /\ KernelIdle
    /\ MaskIdle
    /\ RecordIdle

\* optimize.minimize evaluates simple_fit(*args)
CallSimpleFit ==
    /\ fit_call # None
    /\ fit_ret = None
    /\ fit_ret' = Some(simple_fit(fit_call[1]))
    /\ UNCHANGED <<pipeVars, fit_call, penumbra_ret, latticeVars, kernelVars, maskVars,
                   recordVars>>

\* simple_penumbra(r, delta, Q, r0, r_img, ...) with the same blur and image radius
CallSimplePenumbra ==
    /\ fit_call # None
    /\ penumbra_ret = None
    /\ penumbra_ret' = Some(simple_penumbra(fit_call[1].p[3], fit_call[1].r_img,
                                            fit_call[1].n_bins))
    /\ UNCHANGED <<pipeVars, fit_call, fit_ret, latticeVars, kernelVars, maskVars,
                   recordVars>>

NextFit ==
    \/ CallSimpleFit
    \/ CallSimplePenumbra

SpecFit == InitFit /\ [][NextFit]_vars

\* ---- the two lattice loops on the same geometry ----
MaxPitch == 3       \* s0 is drawn from 1..MaxPitch
MaxImage == 3       \* r_img is drawn from 1..MaxImage
MaxView == 5        \* VIEW_RADIUS is drawn from 1..MaxView

InitLattice ==
    /\ InitPipe
    /\ VIEW_RADIUS \in 1..MaxView
    /\ \E s \in 1..MaxPitch, r \in 1..MaxImage : lattice = Some([s0 |-> s, r_img |-> r])
    /\ fit_offsets = None
    /\ rebin_offsets = None
    /\ FitIdle
    /\ KernelIdle
    /\ MaskIdle
    /\ RecordIdle

\* lines 182-192: the loop of simple_fit
FitLoop ==
    /\ lattice # None
    /\ fit_offsets = None
    /\ fit_offsets' = Some(FitLattice(lattice[1].s0, lattice[1].r_img))
    /\ UNCHANGED <<pipeVars, fitVars, lattice, rebin_offsets, kernelVars, maskVars,
                   recordVars>>

\* lines 332-337: the loop of the re-binning
RebinLoop ==
    /\ lattice # None
    /\ rebin_offsets = None
    /\ rebin_offsets' = Some(RebinLattice(lattice[1].s0, lattice[1].r_img))
    /\ UNCHANGED <<pipeVars, fitVars, lattice, fit_offsets, kernelVars, maskVars,
                   recordVars>>

NextLattice ==
    \/ FitLoop
    \/ RebinLoop

SpecLattice == InitLattice /\ [][NextLattice]_vars

(***************************************************************************)
(*                 The penumbral kernel, lines 339-362                     *)
(*                                                                         *)
(* Lengths are in thirds of a length unit here, so that dxK/3 is whole.    *)
(***************************************************************************)
MaxKernelWidth == 3 \* int(2*SPREAD*r0/dxI) is drawn from 0..MaxKernelWidth
MaxPitchK == 4      \* the pixel pitch dxK is drawn from 3*(1..MaxPitchK)

\* lines 339-341: an odd number of pixels
KernelSize(width) == IF (width + 1) % 2 = 0 THEN width + 2 ELSE width + 1

\* lines 342-344: XK, YK, the pixel centers, measured from the center of the umbra
KernelCenters(g) ==
    LET half == (g.kernel_size - 1) \div 2
    IN  {<<a * g.dxK, b * g.dxK>> : a \in -half..half, b \in -half..half}

\* lines 359-360: the values the loop variables dx and dy take, in loop order
LoopOffsets(g) ==
    LET third == g.dxK \div 3
        axis == <<-third, 0, third>>
    IN  [k \in 1..9 |-> <<axis[((k - 1) \div 3) + 1], axis[((k - 1) % 3) + 1]>>]

\* line 361: np.hypot(XK+dxK, YK+dyK): every pixel center is displaced by one
\* whole pixel, whatever dx and dy are
Displacement(g, dxdy) == <<g.dxK, g.dxK>>

InitKernel ==
    /\ InitPipe
    /\ VIEW_RADIUS = VIEW_RADIUS_0
    /\ \E w \in 0..MaxKernelWidth, t \in 1..MaxPitchK :
          kernel_grid = Some([kernel_size |-> KernelSize(w), dxK |-> 3 * t])
    /\ kernel_loop = 0
    /\ kernel_evals = <<>>
    /\ kernel_unit = FALSE
    /\ FitIdle
    /\ LatticeIdle
    /\ MaskIdle
    /\ RecordIdle

\* lines 359-361: one iteration: penumbral_kernel += simple_penumbra(...)
KernelSample ==
    /\ kernel_grid # None
    /\ kernel_loop < 9
    /\ kernel_loop' = kernel_loop + 1
    /\ kernel_evals' = Append(kernel_evals,
          Displacement(kernel_grid[1], LoopOffsets(kernel_grid[1])[kernel_loop + 1]))
    /\ UNCHANGED <<pipeVars, fitVars, latticeVars, kernel_grid, kernel_unit, maskVars,
                   recordVars>>

\* line 362: penumbral_kernel = penumbral_kernel/np.sum(penumbral_kernel)
KernelNormalize ==
    /\ kernel_grid # None
    /\ kernel_loop = 9
    /\ ~kernel_unit
    /\ kernel_unit' = TRUE
    /\ UNCHANGED <<pipeVars, fitVars, latticeVars, kernel_grid, kernel_loop,
                   kernel_evals, maskVars, recordVars>>

NextKernel ==
    \/ KernelSample
    \/ KernelNormalize

SpecKernel == InitKernel /\ [][NextKernel]_vars

(***************************************************************************)
(*                    The data mask, lines 370-374                         *)
(*                                                                         *)
(* Pixels are index pairs.  penumbral_kernel is given by integer weights:  *)
(* its division by np.sum (line 362) scales the kernel, its maximum, reach *)
(* and reach.max() alike, so kernel/kernel.max() and reach/reach.max() are *)
(* ratios of the weights.  N holds histogram counts, which are finite.     *)
(***************************************************************************)
MaskBinCounts == {4} \* n_bins of the image grids of the masks tried
TrackPixels == 3    \* the number of pixels of N that hold tracks
\* the kernel's weight at squared distance 0, 1, 2 (in pixels) from its center
Profiles == {<<2, 1, 0>>, <<1, 1, 0>>, <<2, 2, 1>>, <<1, 1, 1>>, <<1, 0, 0>>, <<1, 2, 0>>}

ImagePixels(m) == (0..(m.n_bins - 1)) \X (0..(m.n_bins - 1))
\* XS.shape, line 346: the image grid trimmed by kernel_size//2 on each side
SourcePixels(m) ==
    (0..(m.n_bins - m.kernel_size)) \X (0..(m.n_bins - m.kernel_size))
KernelCells(m) == (0..(m.kernel_size - 1)) \X (0..(m.kernel_size - 1))

Weight(m, cell) ==
    LET half == (m.kernel_size - 1) \div 2
        d2 == (cell[1] - half) * (cell[1] - half) + (cell[2] - half) * (cell[2] - half)
    IN  m.profile[d2 + 1]

RECURSIVE SumOver(_, _, _)
\* the sum over the source pixels in S of the kernel weight that reaches pixel p
SumOver(m, p, S) ==
    IF S = {} THEN 0
    ELSE LET src == CHOOSE q \in S : TRUE
             cell == <<p[1] - src[1], p[2] - src[2]>>
         IN  (IF cell \in KernelCells(m) THEN Weight(m, cell) ELSE 0)
                 + SumOver(m, p, S \ {src})

\* line 372: pysignal.convolve2d(np.ones(XS.shape), penumbral_kernel, mode='full')
Reach(m, p) == SumOver(m, p, SourcePixels(m))

Maximum(S) == CHOOSE v \in S : \A w \in S : w <= v
ReachMax(m) == Maximum({Reach(m, p) : p \in ImagePixels(m)})
KernelMax(m) == Maximum({Weight(m, c) : c \in KernelCells(m)})

\* the k-th smallest kernel weight, k counted from 0
KthSmallest(m, k) ==
    CHOOSE v \in {Weight(m, c) : c \in KernelCells(m)} :
        /\ Cardinality({c \in KernelCells(m) : Weight(m, c) < v}) <= k
        /\ k < Cardinality({c \in KernelCells(m) : Weight(m, c) <= v})

\* 100 * np.quantile(kernel weights, percent/100), linear interpolation
Quantile100(m, percent) ==
    LET pos == percent * (m.kernel_size * m.kernel_size - 1)
        lo == pos \div 100
        fr == pos % 100
    IN  IF fr = 0 THEN 100 * KthSmallest(m, lo)
        ELSE (100 - fr) * KthSmallest(m, lo) + fr * KthSmallest(m, lo + 1)

\* lines 370-371: the quantiles .05 and .70 of penumbral_kernel/penumbral_kernel.max()
\* are Quantile100(m, 5) and Quantile100(m, 70) over 100*KernelMax(m)
LowPercent == 5
HighPercent == 70

\* line 373: (reach/reach.max() > penumbra_low) & (reach/reach.max() < penumbra_hih)
\* line 373 with >= and <= for > and <
InBandMut(m, p) ==
    /\ Reach(m, p) * 100 * KernelMax(m) >= Quantile100(m, LowPercent) * ReachMax(m)
    /\ Reach(m, p) * 100 * KernelMax(m) <= Quantile100(m, HighPercent) * ReachMax(m)

InBand(m, p) ==
    /\ Reach(m, p) * 100 * KernelMax(m) > Quantile100(m, LowPercent) * ReachMax(m)
    /\ Reach(m, p) * 100 * KernelMax(m) < Quantile100(m, HighPercent) * ReachMax(m)

\* N, the combined counts
Counts(m, p) == IF p \in m.tracks THEN 1 ELSE 0
\* np.isfinite(N)
IsFinite(v) == v \in Int

Cross(a, b, c) == (b[1] - a[1]) * (c[2] - a[2]) - (b[2] - a[2]) * (c[1] - a[1])

InTriangle(p, a, b, c) ==
    LET d == {Cross(a, b, p), Cross(b, c, p), Cross(c, a, p)}
    IN  ~((\E v \in d : v < 0) /\ (\E v \in d : v > 0))

\* Delaunay(points).find_simplex(p) != -1: p lies in a triangle of the points
InHull(p, points) ==
    \E a \in points, b \in points, c \in points :
        Cross(a, b, c) # 0 /\ InTriangle(p, a, b, c)

\* line 374: (N == 0) & (find_simplex(...) == -1)
Starved(m, p) == Counts(m, p) = 0 /\ ~InHull(p, m.tracks)

RECURSIVE Choices(_, _, _)
\* the sets of k numbers of lo..hi
Choices(lo, hi, k) ==
    IF k = 0 THEN {{}}
    ELSE UNION {{{v} \cup t : t \in Choices(v + 1, hi, k - 1)} : v \in lo..hi}

\* the sets of pixels that may hold the tracks of a cut: TrackPixels pixels of the
\* image grid, not all on one line (Delaunay needs a triangle)
TrackSets(n) ==
    {t \in {{<<v \div n, v % n>> : v \in c} : c \in Choices(0, n * n - 1, TrackPixels)} :
        \E a \in t, b \in t, c \in t : Cross(a, b, c) # 0}

InitMask ==
    /\ InitPipe
    /\ VIEW_RADIUS = VIEW_RADIUS_0
    /\ \E f \in Profiles, n \in MaskBinCounts :
       \E t \in TrackSets(n) :
          mask_in = Some([n_bins |-> n, kernel_size |-> 3, profile |-> f, tracks |-> t])
    /\ mask_line = 0
    /\ data_bins = {}
    /\ data_bins_373 = {}
    /\ FitIdle
    /\ LatticeIdle
    /\ KernelIdle
    /\ RecordIdle

\* lines 370-373: data_bins = np.isfinite(N) & (reach in the band)
MaskReach ==
    /\ mask_in # None
    /\ mask_line = 0
    /\ data_bins' = {p \in ImagePixels(mask_in[1]) :
                        IsFinite(Counts(mask_in[1], p)) /\ InBand(mask_in[1], p)}
    /\ data_bins_373' = data_bins'
    /\ mask_line' = 373
    /\ UNCHANGED <<pipeVars, fitVars, latticeVars, kernelVars, mask_in, recordVars>>

\* line 374: data_bins &= ~(starved pixels)
MaskCrop ==
    /\ mask_in # None
    /\ mask_line = 373
    /\ data_bins' = data_bins \cap {p \in ImagePixels(mask_in[1]) : ~Starved(mask_in[1], p)}
    /\ mask_line' = 374
    /\ UNCHANGED <<pipeVars, fitVars, latticeVars, kernelVars, mask_in, data_bins_373,
                   recordVars>>

NextMask ==
    \/ MaskReach
    \/ MaskCrop

SpecMask == InitMask /\ [][NextMask]_vars

(***************************************************************************)
(*                The setup of a record, lines 216-252                     *)
(*                                                                         *)
(* The catalog pitch and the pitch sA are in one unit, chosen so that      *)
(* 6*VIEW_RADIUS/(M + 1) is whole for the magnifications drawn here.       *)
(***************************************************************************)
Spacings == {0, 3}      \* scan[APERTURE_SPACING]: 0 is "unspecified"
Magnifications == {1, 2} \* scan[MAGNIFICATION]

\* lines 221-223: the pitch of the catalog, or the default drawn from the
\* view radius when the catalog gives 0
Pitch(spacing, M, view) == IF spacing = 0 THEN (6 * view) \div (M + 1) ELSE spacing

InitRecords ==
    /\ InitPipe
    /\ VIEW_RADIUS = VIEW_RADIUS_0
    /\ FitIdle
    /\ LatticeIdle
    /\ KernelIdle
    /\ MaskIdle
    /\ scan = None
    /\ sA = None
    /\ image_pitch = None
    /\ setup_line = 216
    /\ results = {}

\* lines 216-236: the next catalog row; sA reads the global VIEW_RADIUS as the
\* records before this one left it
ReadRow ==
    /\ setup_line = 216
    /\ i < NumRecords
    /\ i' = i + 1
    /\ \E spacing \in Spacings, M \in Magnifications :
          /\ scan' = Some([spacing |-> spacing, M |-> M])
          /\ sA' = Some(Pitch(spacing, M, VIEW_RADIUS))
    /\ image_pitch' = None
    /\ setup_line' = 237
    /\ UNCHANGED <<pc, VIEW_RADIUS, Q, nCuts, color, x0, XS, sum_data_bins, chi2,
                   image_layers, x_layers, printed, shape_args,
                   missing, steps, fits, outcome>>
    /\ UNCHANGED <<fitVars, latticeVars, kernelVars, maskVars, results>>

\* lines 237-245: no file matches the row: continue, VIEW_RADIUS is left alone
FileMissing ==
    /\ setup_line = 237
    /\ setup_line' = 216
    /\ UNCHANGED <<pipeVars, fitVars, latticeVars, kernelVars, maskVars,
                   scan, sA, image_pitch, results>>

\* lines 246-251: load the tracks; s0 from sA; VIEW_RADIUS from the tracks
LoadTracks ==
    /\ setup_line = 237
    /\ image_pitch' = Some((scan[1].M + 1) * sA[1])
    /\ \E extent \in 1..MaxExtent :
          /\ VIEW_RADIUS' = extent
          /\ results' = results \cup
                {[scan |-> scan[1], extent |-> extent, sA |-> sA[1],
                  s0 |-> (scan[1].M + 1) * sA[1], view |-> extent]}
    /\ setup_line' = 252
    /\ UNCHANGED <<pc, i, Q, nCuts, color, x0, XS, sum_data_bins, chi2,
                   image_layers, x_layers, printed, shape_args,
                   missing, steps, fits, outcome>>
    /\ UNCHANGED <<fitVars, latticeVars, kernelVars, maskVars, scan, sA>>

\* lines 252-455: the cuts of the record; none assigns sA, s0 or VIEW_RADIUS
RestOfRecord ==
    /\ setup_line = 252
    /\ setup_line' = 216
    /\ UNCHANGED <<pipeVars, fitVars, latticeVars, kernelVars, maskVars,
                   scan, sA, image_pitch, results>>

NextRecords ==
    \/ ReadRow
    \/ FileMissing
    \/ LoadTracks
    \/ RestOfRecord

SpecRecords == InitRecords /\ [][NextRecords]_vars

(***************************************************************************)
(*                    Properties of the batch pipeline                     *)
(***************************************************************************)

InRow == pc \notin {"loop", "done"}
Emitting == Len(image_layers') > Len(image_layers)

\* C1: a cut whose chi-squared per included pixel is >= 2.0 never appends a map,
\* and a map is appended only for a cut whose chi-squared per included pixel is
\* < 2.0, the empty data mask included.
C1_AcceptanceGate ==
    [][ /\ (pc = "validate" /\ Unreasonable(chi2[1], sum_data_bins[1]) => ~Emitting)
        /\ (Emitting => PerPixelBelowTwo(chi2[1], sum_data_bins[1])) ]_vars

\* C1, the half the code keeps: a cut at or above 2.0 per included pixel appends
\* nothing, and every appended map comes out of the validation of its own cut.
C1_NeverAboveTwo ==
    [][ /\ (pc = "validate" /\ Unreasonable(chi2[1], sum_data_bins[1]) => ~Emitting)
        /\ (Emitting => pc = "validate" /\ ~Unreasonable(chi2[1], sum_data_bins[1])) ]_vars

\* C5: a row without a matching file prints "could not find", performs no
\* reconstruction step, emits no map, does not abort, and the loop goes on.
C5_MissingFileSkipsRow ==
    i \in missing =>
        /\ pc \in {"loop", "done"}
        /\ printed = "Could not find text file"
        /\ steps = {}
        /\ fits = <<>>
        /\ outcome = <<>>
        /\ shape_args = None
        /\ (pc = "done" => i = NumRecords)

C5_Witness ==
    /\ 1 \in missing
    /\ i = 2
    /\ pc = "moments"
    /\ "emitted" \in {outcome[k] : k \in 1..Len(outcome)}

\* C6: whatever number of maps survives in a record, no exception aborts the batch.
C6_NoAbort == pc # "aborted"

(***************************************************************************)
(* C7: within a record the cuts are fitted in order; the first cut with    *)
(* tracks runs the four-parameter fit, every later one the three-parameter *)
(* fit with Q fixed at the value the first fit recorded, also when the     *)
(* first cut's map was discarded; Q is None until the record's first fit.  *)
(***************************************************************************)
Tracked ==
    {c \in 0..(Len(outcome) - 1) : outcome[c + 1] # "empty"}
        \cup (IF pc \in {"grids", "deconvolve", "validate"} THEN {color} ELSE {})

C7_OneChargingFitPerRecord ==
    /\ InRow /\ pc # "aborted" /\ fits = <<>> => Q = None
    /\ fits # <<>> =>
          /\ fits[1].stage = 4
          /\ fits[1].given = None
          /\ Q = Some(fits[1].Q)
    /\ \A k \in 2..Len(fits) :
          /\ fits[k].stage = 3
          /\ fits[k].given = Some(fits[1].Q)
          /\ fits[k].color > fits[k - 1].color
    /\ {fits[k].color : k \in 1..Len(fits)} = Tracked

C7_Witness ==
    /\ i = 2
    /\ Len(fits) >= 2
    /\ fits[2].stage = 3
    /\ outcome[fits[1].color + 1] = "discarded"

\* C10: the source grid handed to shape_parameters is the grid stored with the
\* map it analyzes, the first emitted map of the record.
C10_MomentsOnOwnGrid ==
    shape_args # None => shape_args[1].grid = shape_args[1].layerGrid


(***************************************************************************)
(*           Properties of simple_fit, simple_penumbra, the lattice        *)
(***************************************************************************)

Called == fit_ret # None /\ Supported(fit_call[1])
Params == Unpack(fit_call[1])
\* nothing but the parameters stands between the call and a finite value
DataScoresFinite ==
    /\ ~fit_call[1].teoNaN
    /\ Scored(fit_call[1]) = "finite"
    /\ Include(Params, fit_call[1]) # {}

\* C2: simple_fit returns +infinity, without raising, whenever Q < 0 or the center
\* (x0, y0) lies outside the view radius, in every supported call shape.
C2_InfOutsideViewRadius ==
    Called /\ (Params.Q < 0
               \/ Params.x0 * Params.x0 + Params.y0 * Params.y0
                     > VIEW_RADIUS * VIEW_RADIUS)
        => fit_ret = Some("inf")

\* C2, amended: simple_fit returns +infinity, without raising, whenever Q < 0 or
\* |x0| > VIEW_RADIUS or |y0| > VIEW_RADIUS, in every supported call shape.
C2_InfOutsideViewSquare ==
    Called /\ (Params.Q < 0 \/ Abs(Params.x0) > VIEW_RADIUS
                            \/ Abs(Params.y0) > VIEW_RADIUS)
        => fit_ret = Some("inf")

C2_Witness ==
    /\ Called
    /\ Len(fit_call[1].p) = 7
    /\ Params.Q >= 0
    /\ Abs(Params.x0) <= VIEW_RADIUS
    /\ Abs(Params.y0) > VIEW_RADIUS
    /\ simple_penumbra(Params.delta, fit_call[1].r_img, fit_call[1].n_bins) # "ValueError"
    /\ DataScoresFinite
    /\ fit_ret = Some("inf")

BadBlur == fit_call[1].p[3] < 0 \/ 4 * fit_call[1].p[3] >= fit_call[1].r_img

\* C3: simple_penumbra raises ValueError, and returns no profile, whenever
\* delta < 0 or 4*delta >= r_max; simple_fit called with such a delta and a
\* feasible Q and center returns +infinity and does not raise.
C3_BlurDomainError ==
    /\ penumbra_ret # None /\ BadBlur => penumbra_ret = Some("ValueError")
    /\ Called /\ BadBlur /\ Params.Q >= 0
              /\ Abs(Params.x0) <= VIEW_RADIUS /\ Abs(Params.y0) <= VIEW_RADIUS
          => fit_ret = Some("inf")

C3_Witness ==
    /\ Called
    /\ penumbra_ret = Some("ValueError")
    /\ 4 * Params.delta = fit_call[1].r_img
    /\ Params.Q >= 0
    /\ Abs(Params.x0) <= VIEW_RADIUS /\ Abs(Params.y0) <= VIEW_RADIUS
    /\ DataScoresFinite
    /\ fit_ret = Some("inf")

\* C8: the offsets the re-binning folds into the combined image are exactly the
\* offsets simple_fit superposes, for every s0, r_img and view radius.
C8_SameLattice ==
    fit_offsets # None /\ rebin_offsets # None => fit_offsets = rebin_offsets


(***************************************************************************)
(*                       Properties of the kernel                          *)
(***************************************************************************)

\* the positions at which the forward model was evaluated for the pixel at xy
SamplePositions(xy) ==
    {<<xy[1] + kernel_evals[k][1], xy[2] + kernel_evals[k][2]>> :
        k \in 1..Len(kernel_evals)}

\* C9: the kernel sums nine evaluations of the forward model per pixel, at the
\* pixel center displaced by each (dx, dy) of {-pitch/3, 0, pitch/3} squared:
\* nine distinct positions, each within a third of a pixel of the center; the
\* sum is then divided by its total.
C9_NineSubpixelSamples ==
    kernel_unit =>
        /\ Len(kernel_evals) = 9
        /\ \A xy \in KernelCenters(kernel_grid[1]) :
              /\ SamplePositions(xy)
                    = {<<xy[1] + d[1], xy[2] + d[2]>> :
                          d \in {LoopOffsets(kernel_grid[1])[k] : k \in 1..9}}
              /\ Cardinality(SamplePositions(xy)) = 9
              /\ \A pos \in SamplePositions(xy) :
                    /\ 3 * Abs(pos[1] - xy[1]) <= kernel_grid[1].dxK
                    /\ 3 * Abs(pos[2] - xy[2]) <= kernel_grid[1].dxK


(***************************************************************************)
(*                      Properties of the data mask                        *)
(***************************************************************************)

\* C4: every pixel of the data mask is finite in N and has a normalized reach
\* strictly above the low and strictly below the high quantile threshold of the
\* kernel; the convex-hull crop removes pixels from the mask and adds none.
C4_MaskWithinBand ==
    /\ \A p \in data_bins :
          LET m == mask_in[1] IN
          /\ p \in ImagePixels(m)
          /\ Counts(m, p) \in Nat
          /\ Reach(m, p) * 100 * KernelMax(m) > Quantile100(m, 5) * ReachMax(m)
          /\ Reach(m, p) * 100 * KernelMax(m) < Quantile100(m, 70) * ReachMax(m)
    /\ mask_line = 374 => data_bins \subseteq data_bins_373

C4_Witness ==
    /\ mask_line = 374
    /\ data_bins # {}
    /\ data_bins # data_bins_373

\* the pitches a row gets when its record is the first of the batch
AsFirstRecord(row) == Pitch(row.spacing, row.M, VIEW_RADIUS_0)

\* C11: the pitches of a record are a function of its catalog row and its track
\* file only: two records of a batch with the same row and the same tracks get
\* the same sA and s0, and every record gets the sA and s0 it gets as the first
\* record of a batch, a row of zero pitch included.
C11_RecordAlone ==
    /\ \A r \in results :
          /\ r.sA = AsFirstRecord(r.scan)
          /\ r.s0 = (r.scan.M + 1) * AsFirstRecord(r.scan)
    /\ \A a, b \in results :
          (a.scan = b.scan /\ a.extent = b.extent) => (a.sA = b.sA /\ a.s0 = b.s0)

\* C11, the part that holds: the view radius of the grids is the extent of the
\* record's own tracks, and a row that gives a pitch keeps it.
C11_GivenPitchAlone ==
    \A r \in results :
       /\ r.view = r.extent
       /\ r.scan.spacing # 0 => (r.sA = r.scan.spacing /\ r.s0 = (r.scan.M + 1) * r.sA)

=============================================================================
